---- MODULE Spec2Model ----
(***************************************************************************)
(* Inventory application (aplicativo.py): three SQLite tables (suppliers,  *)
(* products, movements) written through db_execute, one autocommitted      *)
(* statement per call, by the page handlers manage_products,               *)
(* manage_movements and manage_suppliers.  Every browser session runs the  *)
(* page script in its own thread; a script run reads with db_fetch and     *)
(* later writes with db_execute, and the statements of different sessions  *)
(* interleave.  Each action below is one database statement of a handler   *)
(* together with the local computation that precedes it.                   *)
(***************************************************************************)
EXTENDS Integers, Sequences, FiniteSets, TLC

\* ---------------------------------------------------------------- bounds
MaxRuns == 3            \* script runs (button presses) in one behaviour
MaxQty == 1             \* largest number typed into a quantity number_input
MaxStatusQty == 13      \* largest stored quantity shown on the dashboard
MaxStatusMin == 10      \* largest stored min_stock shown on the dashboard

Sessions == {"s1", "s2"}
Codes == {"SKU1", "SKU2"}
Names == {"Bota", "Tenis"}
NameSeq == <<"Bota", "Tenis">>
SupplierNames == {"Cueros"}
Nits == {"", "900"}
NotesSet == {"Venta #123"}
MinStocks == {10}        \* number_input "Stock Minimo", default value=10
MovementTypes == {"Entrada", "Salida"}
NoSupplier == 0          \* SQL NULL / Python None in products.supplier_id

VARIABLES
    suppliers,      \* table suppliers: id -> [name, nit]
    products,       \* table products: id -> [code, name, quantity, min_stock, supplier_id]
    movements,      \* table movements: sequence of rows, id = position
    seqSuppliers,   \* sqlite_sequence of suppliers (AUTOINCREMENT)
    seqProducts,    \* sqlite_sequence of products (AUTOINCREMENT)
    runs,           \* script runs started so far; the time CURRENT_TIMESTAMP tells
    pc,             \* per session: position of the running script
    loc,            \* per session: local variables of the running script
    msg             \* per session: last st.success / st.error / st.info shown

vars == <<suppliers, products, movements, seqSuppliers, seqProducts, runs, pc, loc, msg>>
db == <<suppliers, products, movements, seqSuppliers, seqProducts>>

NoLoc == [op |-> "none"]
NoMsg == [kind |-> "none"]

\* ------------------------------------------------------------- helpers
MinOf(S) == CHOOSE x \in S : \A y \in S : x <= y
MaxOf(S) == CHOOSE x \in S : \A y \in S : x >= y

\* pd.Series(df['id'].values, index=df['name']).to_dict(): for a repeated
\* name the later row overwrites the earlier one; rows come in rowid order.
ToDict(table, name) == MaxOf({i \in DOMAIN table : table[i].name = name})

\* df[df['name'] == name].iloc[0]: the first row carrying the name.
FirstRow(table, name) == MinOf({i \in DOMAIN table : table[i].name = name})

TableNames(table) == {table[i].name : i \in DOMAIN table}

EmptyTable == [i \in {} |-> NoLoc]

\* INSERT of a row under a fresh id, DELETE ... WHERE id = ?
InsertRow(table, id, row) == [i \in DOMAIN table \cup {id} |-> IF i = id THEN row ELSE table[i]]
DeleteRow(table, id) == [i \in DOMAIN table \ {id} |-> table[i]]

\* A script run starts: one more button press of the behaviour.
StartRun == runs < MaxRuns /\ runs' = runs + 1

Init ==
    /\ suppliers = EmptyTable
    /\ products = EmptyTable
    /\ movements = << >>
    /\ seqSuppliers = 0
    /\ seqProducts = 0
    /\ runs = 0
    /\ pc = [s \in Sessions |-> "idle"]
    /\ loc = [s \in Sessions |-> NoLoc]
    /\ msg = [s \in Sessions |-> NoMsg]

\* ------------------------------------------------- manage_movements
\* db_fetch of the product list, product_dict, the selected product and its
\* displayed stock.
MovementsFetch(s) ==
    /\ pc[s] = "idle"
    /\ StartRun
    /\ DOMAIN products # {}
    /\ \E product_name \in TableNames(products) :
         loc' = [loc EXCEPT ![s] =
                   [op |-> "movement",
                    product_name |-> product_name,
                    product_id |-> ToDict(products, product_name),
                    current_stock |-> products[FirstRow(products, product_name)].quantity]]
    /\ pc' = [pc EXCEPT ![s] = "mv_submit"]
    /\ msg' = [msg EXCEPT ![s] = NoMsg]
    /\ UNCHANGED db

\* The validation applied to the wrong movement type.
InsufficientStock_WrongType(movement_type, quantity, current_stock) ==
    movement_type = "Entrada" /\ quantity > current_stock

\* "Validacion de Stock (solo para Salida)"
InsufficientStock(movement_type, quantity, current_stock) ==
    movement_type = "Salida" /\ quantity > current_stock

\* INSERT OR REPLACE under a fixed id: the new row takes the place of the old.
InsertMovement_Replace(table, row) == <<row>>

\* INSERT INTO movements (product_id, type, quantity, notes); the id is the
\* next rowid and date defaults to CURRENT_TIMESTAMP.
InsertMovement(table, row) == Append(table, row)

\* The stock validation and the INSERT INTO movements.  ok: db_execute
\* returned (True, None); otherwise it caught an sqlite3.Error.
MovementsInsert(s, ok) ==
    /\ UNCHANGED runs
    /\ pc[s] = "mv_submit"
    /\ \E movement_type \in MovementTypes, quantity \in 1..MaxQty, notes \in NotesSet :
         LET l == loc[s] IN
         IF InsufficientStock(movement_type, quantity, l.current_stock)
         THEN /\ msg' = [msg EXCEPT ![s] =
                    [kind |-> "insufficient_stock"]]
              /\ pc' = [pc EXCEPT ![s] = "idle"]
              /\ loc' = [loc EXCEPT ![s] = NoLoc]
              /\ UNCHANGED db
         ELSE IF ok
         THEN /\ movements' = InsertMovement(movements,
                        [product_id |-> l.product_id, type |-> movement_type,
                         quantity |-> quantity, date |-> runs, notes |-> notes])
              /\ loc' = [loc EXCEPT ![s] =
                    [op |-> "movement", product_name |-> l.product_name,
                     product_id |-> l.product_id, current_stock |-> l.current_stock,
                     movement_type |-> movement_type, quantity |-> quantity]]
              /\ pc' = [pc EXCEPT ![s] = "mv_update"]
              /\ UNCHANGED <<suppliers, products, seqSuppliers, seqProducts, msg>>
         ELSE /\ msg' = [msg EXCEPT ![s] = [kind |-> "movement_error"]]
              /\ pc' = [pc EXCEPT ![s] = "idle"]
              /\ loc' = [loc EXCEPT ![s] = NoLoc]
              /\ UNCHANGED db

\* new_stock and UPDATE products SET quantity = ? WHERE id = ?
NewStock(movement_type, current_stock, quantity) ==
    IF movement_type = "Entrada" THEN current_stock + quantity
    ELSE current_stock - quantity

\* The UPDATE without its WHERE clause: every row takes the new quantity.
UpdateQuantity_AllRows(table, id, new_stock) ==
    [i \in DOMAIN table |-> [table[i] EXCEPT !.quantity = new_stock]]

\* UPDATE ... WHERE id = ? changes the row if it exists and no row otherwise.
UpdateQuantity(table, id, new_stock) ==
    IF id \in DOMAIN table THEN [table EXCEPT ![id].quantity = new_stock] ELSE table

MovementsUpdateStock(s, ok) ==
    /\ UNCHANGED runs
    /\ pc[s] = "mv_update"
    /\ LET l == loc[s]
           new_stock == NewStock(l.movement_type, l.current_stock, l.quantity) IN
       IF ok
       THEN /\ products' = UpdateQuantity(products, l.product_id, new_stock)
            /\ msg' = [msg EXCEPT ![s] =
                  [kind |-> "success"]]
       ELSE /\ products' = products
            /\ msg' = [msg EXCEPT ![s] = [kind |-> "stock_update_error"]]
    /\ pc' = [pc EXCEPT ![s] = "idle"]
    /\ loc' = [loc EXCEPT ![s] = NoLoc]
    /\ UNCHANGED <<suppliers, movements, seqSuppliers, seqProducts>>

\* One whole run of the movement form with no statement of another session
\* in between: the tables and the message it ends with.
RecordMovement(P, M, product_name, movement_type, quantity, notes, now) ==
    LET product_id == ToDict(P, product_name)
        current_stock == P[FirstRow(P, product_name)].quantity IN
    IF InsufficientStock(movement_type, quantity, current_stock)
    THEN [kind |-> "insufficient_stock", products |-> P, movements |-> M]
    ELSE [kind |-> "success",
          products |-> UpdateQuantity(P, product_id,
                          NewStock(movement_type, current_stock, quantity)),
          movements |-> InsertMovement(M,
                          [product_id |-> product_id, type |-> movement_type,
                           quantity |-> quantity, date |-> now, notes |-> notes])]

\* ------------------------------------------------- manage_products
\* db_fetch of the suppliers, supplier_dict and the supplier picked in the
\* creation form ('Ninguno' is not a key of supplier_dict: .get gives None).
ProductsFetchSuppliers(s) ==
    /\ pc[s] = "idle"
    /\ StartRun
    /\ \E supplier_name \in {"Ninguno"} \cup TableNames(suppliers) :
         loc' = [loc EXCEPT ![s] =
                   [op |-> "new_product",
                    supplier_id_to_use |->
                        IF supplier_name = "Ninguno" THEN NoSupplier
                        ELSE ToDict(suppliers, supplier_name)]]
    /\ pc' = [pc EXCEPT ![s] = "pr_insert"]
    /\ msg' = [msg EXCEPT ![s] = NoMsg]
    /\ UNCHANGED db

\* A products table whose code column is not declared UNIQUE.
CodeTaken_NotUnique(table, code) == FALSE

\* products.code is UNIQUE NOT NULL
CodeTaken(table, code) == \E i \in DOMAIN table : table[i].code = code

\* The form validation and the INSERT INTO products.
ProductsInsert(s) ==
    /\ UNCHANGED runs
    /\ pc[s] = "pr_insert"
    /\ \E code \in Codes \cup {""}, name \in Names \cup {""},
          quantity \in 0..MaxQty, min_stock \in MinStocks :
         IF code = "" \/ name = ""
         THEN /\ msg' = [msg EXCEPT ![s] = [kind |-> "validation"]]
              /\ UNCHANGED db
         ELSE IF CodeTaken(products, code)
         THEN /\ msg' = [msg EXCEPT ![s] = [kind |-> "unique_failed", code |-> code]]
              /\ UNCHANGED db
         ELSE /\ seqProducts' = seqProducts + 1
              /\ products' = InsertRow(products, seqProducts + 1,
                    [code |-> code, name |-> name, quantity |-> quantity,
                     min_stock |-> min_stock,
                     supplier_id |-> loc[s].supplier_id_to_use])
              /\ msg' = [msg EXCEPT ![s] = [kind |-> "success"]]
              /\ UNCHANGED <<suppliers, movements, seqSuppliers>>
    /\ pc' = [pc EXCEPT ![s] = "idle"]
    /\ loc' = [loc EXCEPT ![s] = NoLoc]

\* ORDER BY p.name of the edit table; rows of one name in rowid order.
NameRank(name) == CHOOSE k \in 1..Len(NameSeq) : NameSeq[k] = name
Before(df, i, j) ==
    \/ NameRank(df[i].name) < NameRank(df[j].name)
    \/ df[i].name = df[j].name /\ i < j

\* The rows of df a loop has still to visit once it has visited row cursor
\* (0: none yet).
Pending(df, cursor) ==
    IF cursor = 0 THEN DOMAIN df ELSE {i \in DOMAIN df : Before(df, cursor, i)}

\* db_fetch of the edit table; the button "Guardar Cambios" was pressed.
ProductsLoadTable(s) ==
    /\ pc[s] = "idle"
    /\ StartRun
    /\ DOMAIN products # {}
    /\ loc' = [loc EXCEPT ![s] =
          [op |-> "save",
           df_products |-> [i \in DOMAIN products |->
                [name |-> products[i].name, quantity |-> products[i].quantity,
                 min_stock |-> products[i].min_stock]],
           phase |-> "delete", cursor |-> 0, deleted |-> {}, updated_count |-> 0]]
    /\ pc' = [pc EXCEPT ![s] = "pr_save"]
    /\ msg' = [msg EXCEPT ![s] = NoMsg]
    /\ UNCHANGED db

\* Loop 1: the next row of edited_data marked 'Eliminar': DELETE FROM products.
ProductsDelete(s) ==
    /\ UNCHANGED runs
    /\ pc[s] = "pr_save"
    /\ loc[s].phase = "delete"
    /\ LET l == loc[s] df == l.df_products IN
       \E i \in Pending(df, l.cursor) :
         /\ products' = DeleteRow(products, i)
         /\ loc' = [loc EXCEPT ![s].cursor = i, ![s].deleted = l.deleted \cup {i}]
    /\ UNCHANGED <<suppliers, movements, seqSuppliers, seqProducts, pc, msg>>

\* UPDATE products SET name, ..., quantity, min_stock, ... WHERE id = ?
UpdateProduct(table, id, new_row) ==
    IF id \in DOMAIN table
    THEN [table EXCEPT ![id].name = new_row.name,
                       ![id].quantity = new_row.quantity,
                       ![id].min_stock = new_row.min_stock]
    ELSE table

\* Loop 2: the next unmarked row whose edited values differ from the loaded
\* ones (is_modified): UPDATE products with every editable column of new_row.
ProductsUpdate(s) ==
    /\ UNCHANGED runs
    /\ pc[s] = "pr_save"
    /\ LET l == loc[s]
           df == l.df_products
           cursor == IF l.phase = "delete" THEN 0 ELSE l.cursor IN
       \E i \in Pending(df, cursor) \ l.deleted :
         /\ \E name \in Names, quantity \in 0..MaxQty, min_stock \in MinStocks :
              LET new_row == [name |-> name, quantity |-> quantity, min_stock |-> min_stock] IN
              /\ new_row # df[i]
              /\ products' = UpdateProduct(products, i, new_row)
         /\ loc' = [loc EXCEPT ![s].phase = "update", ![s].cursor = i,
                               ![s].updated_count = 1]
    /\ UNCHANGED <<suppliers, movements, seqSuppliers, seqProducts, pc, msg>>

\* End of the save: the summary message.
ProductsSaveDone(s) ==
    /\ UNCHANGED runs
    /\ pc[s] = "pr_save"
    /\ msg' = [msg EXCEPT ![s] =
          IF loc[s].updated_count > 0 \/ loc[s].deleted # {}
          THEN [kind |-> "processed"] ELSE [kind |-> "no_changes"]]
    /\ pc' = [pc EXCEPT ![s] = "idle"]
    /\ loc' = [loc EXCEPT ![s] = NoLoc]
    /\ UNCHANGED db

\* ------------------------------------------------- manage_suppliers
\* A suppliers table whose nit column is not declared UNIQUE.
NitTaken_NotUnique(table, nit, except) == FALSE

\* suppliers.nit is UNIQUE; the form sends the text typed, '' when left blank.
NitTaken(table, nit, except) == \E i \in DOMAIN table \ {except} : table[i].nit = nit

\* The creation form: validation and INSERT INTO suppliers.
SuppliersInsert(s) ==
    /\ pc[s] = "idle"
    /\ StartRun
    /\ \E name \in SupplierNames \cup {""}, nit \in Nits :
         IF name = ""
         THEN /\ msg' = [msg EXCEPT ![s] = [kind |-> "validation"]]
              /\ UNCHANGED db
         ELSE IF NitTaken(suppliers, nit, 0)
         THEN /\ msg' = [msg EXCEPT ![s] = [kind |-> "nit_taken", nit |-> nit]]
              /\ UNCHANGED db
         ELSE /\ seqSuppliers' = seqSuppliers + 1
              /\ suppliers' = InsertRow(suppliers, seqSuppliers + 1, [name |-> name, nit |-> nit])
              /\ msg' = [msg EXCEPT ![s] = [kind |-> "success"]]
              /\ UNCHANGED <<products, movements, seqProducts>>
    /\ UNCHANGED <<pc, loc>>

\* db_fetch of the suppliers, the supplier picked by name in the selectbox and
\* the button that started the run ("Actualizar Detalles" or "Eliminar").
SuppliersSelect(s) ==
    /\ pc[s] = "idle"
    /\ StartRun
    /\ DOMAIN suppliers # {}
    /\ \E supplier_selection \in TableNames(suppliers) :
         loc' = [loc EXCEPT ![s] =
                   [op |-> "supplier", supplier_id |-> FirstRow(suppliers, supplier_selection)]]
    /\ \E button \in {"sup_update", "sup_count"} : pc' = [pc EXCEPT ![s] = button]
    /\ msg' = [msg EXCEPT ![s] = NoMsg]
    /\ UNCHANGED db

\* UPDATE suppliers SET name = ?, nit = ?, ... WHERE id = ?
UpdateSupplier(table, id, name, nit) ==
    IF id \in DOMAIN table THEN [table EXCEPT ![id] = [name |-> name, nit |-> nit]] ELSE table

\* The edit form "Actualizar Detalles".
SuppliersUpdate(s) ==
    /\ UNCHANGED runs
    /\ pc[s] = "sup_update"
    /\ LET supplier_id == loc[s].supplier_id IN
       \E edit_name \in SupplierNames \cup {""}, edit_nit \in Nits :
         IF edit_name = ""
         THEN /\ msg' = [msg EXCEPT ![s] = [kind |-> "validation"]]
              /\ UNCHANGED db
         ELSE IF supplier_id \in DOMAIN suppliers /\ NitTaken(suppliers, edit_nit, supplier_id)
         THEN /\ msg' = [msg EXCEPT ![s] = [kind |-> "update_error", nit |-> edit_nit]]
              /\ UNCHANGED db
         ELSE /\ suppliers' = UpdateSupplier(suppliers, supplier_id, edit_name, edit_nit)
              /\ msg' = [msg EXCEPT ![s] = [kind |-> "success"]]
              /\ UNCHANGED <<products, movements, seqSuppliers, seqProducts>>
    /\ pc' = [pc EXCEPT ![s] = "idle"]
    /\ loc' = [loc EXCEPT ![s] = NoLoc]

\* The count taken over the product id instead of the supplier reference.
ProductsCount_ById(table, supplier_id) ==
    Cardinality({i \in DOMAIN table : i = supplier_id})

\* SELECT COUNT(*) FROM products WHERE supplier_id = ?
ProductsCount(table, supplier_id) ==
    Cardinality({i \in DOMAIN table : table[i].supplier_id = supplier_id})

\* The button "Eliminar Proveedor": the count of associated products.
SuppliersCount(s) ==
    /\ UNCHANGED runs
    /\ pc[s] = "sup_count"
    /\ IF ProductsCount(products, loc[s].supplier_id) > 0
       THEN /\ msg' = [msg EXCEPT ![s] =
                  [kind |-> "referential_conflict"]]
            /\ pc' = [pc EXCEPT ![s] = "idle"]
            /\ loc' = [loc EXCEPT ![s] = NoLoc]
       ELSE /\ pc' = [pc EXCEPT ![s] = "sup_delete"]
            /\ UNCHANGED <<loc, msg>>
    /\ UNCHANGED db

\* DELETE FROM suppliers WHERE id = ?
SuppliersDelete(s) ==
    /\ UNCHANGED runs
    /\ pc[s] = "sup_delete"
    /\ suppliers' = DeleteRow(suppliers, loc[s].supplier_id)
    /\ msg' = [msg EXCEPT ![s] = [kind |-> "success"]]
    /\ pc' = [pc EXCEPT ![s] = "idle"]
    /\ loc' = [loc EXCEPT ![s] = NoLoc]
    /\ UNCHANGED <<products, movements, seqSuppliers, seqProducts>>

\* ------------------------------------- show_dashboard, show_reports
\* The dashboard and the reports only db_fetch.
\* A catalogue of two products with distinct names, each created with
\* quantity MaxQty, on which only the movement form is used.
InitLedger ==
    /\ suppliers = EmptyTable
    /\ products = InsertRow(InsertRow(EmptyTable, 1,
              [code |-> "SKU1", name |-> "Bota", quantity |-> MaxQty,
               min_stock |-> 10, supplier_id |-> NoSupplier]), 2,
              [code |-> "SKU2", name |-> "Tenis", quantity |-> MaxQty,
               min_stock |-> 10, supplier_id |-> NoSupplier])
    /\ movements = << >>
    /\ seqSuppliers = 0
    /\ seqProducts = 2
    /\ runs = 0
    /\ pc = [s \in Sessions |-> "idle"]
    /\ loc = [s \in Sessions |-> NoLoc]
    /\ msg = [s \in Sessions |-> NoMsg]

NextLedger ==
    \/ \E s \in Sessions : MovementsFetch(s)
    \/ \E s \in Sessions : MovementsInsert(s, TRUE)
    \/ \E s \in Sessions : MovementsUpdateStock(s, TRUE)

SpecLedger == InitLedger /\ [][NextLedger]_vars

\* ------------------------------------------------- show_dashboard
\* The literal 1.2 is the double 0x1.3333333333333p+0, that is
\* (Factor12Hi * Limb + Factor12Lo) * 2^-52, a little under 6/5.
Limb == 67108864
Factor12Hi == 80530636
Factor12Lo == 53687091

RECURSIVE Pow2(_)
Pow2(n) == IF n = 0 THEN 1 ELSE 2 * Pow2(n - 1)

RECURSIVE BitLen(_)
BitLen(n) == IF n = 0 THEN 0 ELSE 1 + BitLen(n \div 2)

\* row['min_stock'] * 1.2 in double arithmetic: the exact product of the
\* integer and the 53-bit significand, rounded to 53 significant bits, ties
\* to even.  The result is <<hi, lo>> standing for (hi * Limb + lo) * 2^-52.
TimesFactor12(min_stock) ==
    LET lowProduct == min_stock * Factor12Lo
        hi == min_stock * Factor12Hi + (lowProduct \div Limb)
        lo == lowProduct % Limb
        dropped == IF BitLen(hi) > 27 THEN BitLen(hi) - 27 ELSE 0
        unit == Pow2(dropped)
        kept == lo \div unit
        rest == lo % unit
        up == IF 2 * rest > unit \/ (2 * rest = unit /\ kept % 2 = 1) THEN 1 ELSE 0
        rounded == (kept + up) * unit
    IN  IF rounded = Limb THEN <<hi + 1, 0>> ELSE <<hi, rounded>>

\* row['quantity'] <= d for an integer quantity and a double d = <<hi, lo>>:
\* quantity * 2^52 <= hi * Limb + lo, and 0 <= lo < Limb.
LessEqDouble(quantity, d) == quantity * Limb <= d[1]

\* The Bajo band taken without its upper edge.
StockStatus_OpenBand(quantity, min_stock) ==
    IF quantity < min_stock THEN "Crítico"
    ELSE IF 5 * quantity < 6 * min_stock THEN "Bajo"
    ELSE "Óptimo"

\* the lambda of df_products.apply that derives stock_status
StockStatus(quantity, min_stock) ==
    IF quantity < min_stock THEN "Crítico"
    ELSE IF LessEqDouble(quantity, TimesFactor12(min_stock)) THEN "Bajo"
    ELSE "Óptimo"

\* The dashboard page: reads the products and derives each one's status.
ShowDashboard(s) ==
    /\ pc[s] = "idle"
    /\ StartRun
    /\ msg' = [msg EXCEPT ![s] =
          [kind |-> "dashboard",
           stock_status |-> [i \in DOMAIN products |->
                StockStatus(products[i].quantity, products[i].min_stock)]]]
    /\ UNCHANGED <<db, pc, loc>>

\* A catalogue holding one product with any stored quantity and min_stock.
InitStatus ==
    /\ suppliers = EmptyTable
    /\ \E quantity \in 0..MaxStatusQty, min_stock \in 0..MaxStatusMin :
          products = InsertRow(EmptyTable, 1,
              [code |-> "SKU1", name |-> "Bota", quantity |-> quantity,
               min_stock |-> min_stock, supplier_id |-> NoSupplier])
    /\ movements = << >>
    /\ seqSuppliers = 0
    /\ seqProducts = 1
    /\ runs = 0
    /\ pc = [s \in Sessions |-> "idle"]
    /\ loc = [s \in Sessions |-> NoLoc]
    /\ msg = [s \in Sessions |-> NoMsg]

NextStatus == \E s \in Sessions : ShowDashboard(s)

SpecStatus == InitStatus /\ [][NextStatus]_vars

\* ------------------------------------------------- show_reports
ShowReports(s) ==
    /\ pc[s] = "idle"
    /\ StartRun
    /\ msg' = [msg EXCEPT ![s] = [kind |-> "report"]]
    /\ UNCHANGED <<db, pc, loc>>

Next ==
    \/ \E s \in Sessions : MovementsFetch(s)
    \/ \E s \in Sessions : MovementsInsert(s, TRUE)
    \/ \E s \in Sessions : MovementsUpdateStock(s, TRUE)
    \/ \E s \in Sessions : ProductsFetchSuppliers(s)
    \/ \E s \in Sessions : ProductsInsert(s)
    \/ \E s \in Sessions : ProductsLoadTable(s)
    \/ \E s \in Sessions : ProductsDelete(s)
    \/ \E s \in Sessions : ProductsUpdate(s)
    \/ \E s \in Sessions : ProductsSaveDone(s)
    \/ \E s \in Sessions : SuppliersInsert(s)
    \/ \E s \in Sessions : SuppliersSelect(s)
    \/ \E s \in Sessions : SuppliersUpdate(s)
    \/ \E s \in Sessions : SuppliersCount(s)
    \/ \E s \in Sessions : SuppliersDelete(s)
    \/ \E s \in Sessions : ShowReports(s)

Spec == Init /\ [][Next]_vars

\* The same program when a write of the movement form can raise
\* sqlite3.Error (database locked, disk full): db_execute then returns
\* (False, error) and nothing is committed.
NextFault ==
    \/ \E s \in Sessions : MovementsFetch(s)
    \/ \E s \in Sessions, ok \in BOOLEAN : MovementsInsert(s, ok)
    \/ \E s \in Sessions, ok \in BOOLEAN : MovementsUpdateStock(s, ok)
    \/ \E s \in Sessions : ProductsFetchSuppliers(s)
    \/ \E s \in Sessions : ProductsInsert(s)
    \/ \E s \in Sessions : ProductsLoadTable(s)
    \/ \E s \in Sessions : ProductsDelete(s)
    \/ \E s \in Sessions : ProductsUpdate(s)
    \/ \E s \in Sessions : ProductsSaveDone(s)
    \/ \E s \in Sessions : SuppliersInsert(s)
    \/ \E s \in Sessions : SuppliersSelect(s)
    \/ \E s \in Sessions : SuppliersUpdate(s)
    \/ \E s \in Sessions : SuppliersCount(s)
    \/ \E s \in Sessions : SuppliersDelete(s)
    \/ \E s \in Sessions : ShowReports(s)

SpecFault == Init /\ [][NextFault]_vars

\* ================================================================ claims
AllIdle == \A s \in Sessions : pc[s] = "idle"
Referenced(supplier_id) == \E i \in DOMAIN products : products[i].supplier_id = supplier_id

\* C1: in every reachable state the on-hand quantity of every product is
\* greater than or equal to zero.
C1_NonNegativeStock == \A i \in DOMAIN products : products[i].quantity >= 0

\* A withdrawal has been recorded and applied, and took the stock to zero.
C1_Witness ==
    /\ AllIdle
    /\ \E k \in 1..Len(movements) :
         /\ movements[k].type = "Salida"
         /\ movements[k].product_id \in DOMAIN products
         /\ products[movements[k].product_id].quantity = 0

\* C2: two overlapping withdrawals from one product, each within the stock
\* both sessions read and together above it, are never both accepted: one of
\* them is refused for insufficient stock.
C2_OneSalidaAccepted ==
    \A s1, s2 \in Sessions :
        ~ ( /\ s1 # s2
            /\ pc[s1] = "mv_update" /\ pc[s2] = "mv_update"
            /\ loc[s1].movement_type = "Salida" /\ loc[s2].movement_type = "Salida"
            /\ loc[s1].product_id = loc[s2].product_id
            /\ loc[s1].current_stock = loc[s2].current_stock
            /\ loc[s1].quantity + loc[s2].quantity > loc[s1].current_stock )

\* C3: a withdrawal larger than the quantity the product holds when the call
\* is executed is refused: it never gets past the validation to write its
\* movement row.
C3_SalidaOverStockRefused ==
    [][\A s \in Sessions :
         ( /\ pc[s] = "mv_submit" /\ pc'[s] = "mv_update"
           /\ loc'[s].movement_type = "Salida"
           /\ loc[s].product_id \in DOMAIN products )
         => loc'[s].quantity <= products[loc[s].product_id].quantity]_vars

\* C4: an Entrada of q followed by a Salida of q on the same product gives the
\* product its quantity back and adds exactly two movement rows, one Entrada
\* and one Salida of q for that product.
C4_RoundTrip ==
    \A product_name \in TableNames(products), q \in 1..MaxQty, notes \in NotesSet :
        LET product_id == ToDict(products, product_name)
            r1 == RecordMovement(products, movements, product_name, "Entrada", q, notes, runs)
            r2 == RecordMovement(r1.products, r1.movements, product_name, "Salida", q, notes, runs)
            n == Len(movements)
        IN  /\ r2.products[product_id].quantity = products[product_id].quantity
            /\ Len(r2.movements) = n + 2
            /\ \A k \in 1..n : r2.movements[k] = movements[k]
            /\ r2.movements[n + 1].type = "Entrada" /\ r2.movements[n + 2].type = "Salida"
            /\ \A k \in {n + 1, n + 2} :
                 r2.movements[k].product_id = product_id /\ r2.movements[k].quantity = q

\* C5: a successful record_movement appends exactly one row carrying the
\* product, the type and q, and sets the quantity of that product to the
\* quantity it had stored plus q (Entrada) or minus q (Salida).
C5_SuccessfulMovement ==
    \A product_name \in TableNames(products), movement_type \in MovementTypes,
       q \in 1..MaxQty, notes \in NotesSet :
        LET product_id == ToDict(products, product_name)
            r == RecordMovement(products, movements, product_name, movement_type, q, notes, runs)
            n == Len(movements)
            stored == products[product_id].quantity
        IN  r.kind = "success" =>
              /\ Len(r.movements) = n + 1
              /\ r.movements[n + 1].product_id = product_id
              /\ r.movements[n + 1].type = movement_type
              /\ r.movements[n + 1].quantity = q
              /\ r.products[product_id].quantity =
                    IF movement_type = "Entrada" THEN stored + q ELSE stored - q

\* C6: the quantity of an existing product changes only in the stock update
\* of a record_movement call on that product, whose movement row is in the
\* table.
C6_QuantityOnlyByLedger ==
    [][\A i \in DOMAIN products \cap DOMAIN products' :
         products'[i].quantity # products[i].quantity =>
            /\ \E s \in Sessions :
                 pc[s] = "mv_update" /\ pc'[s] = "idle" /\ loc[s].product_id = i
            /\ \E k \in 1..Len(movements) : movements[k].product_id = i]_vars

\* C7: the movement table is append-only: every row that exists is still
\* there, under the same id and with the same product reference, type,
\* quantity, timestamp and notes, after every step of the system.
C7_AppendOnly ==
    [][/\ Len(movements') >= Len(movements)
       /\ \A k \in 1..Len(movements) : movements'[k] = movements[k]]_vars

\* A movement row has outlived the deletion of its product.
C7_Witness ==
    /\ AllIdle
    /\ \E k \in 1..Len(movements) : movements[k].product_id \notin DOMAIN products

\* C8: no two products share a code, and creating a product under a code that
\* exists fails with the uniqueness message and changes no product row.
C8_UniqueCode ==
    /\ [](\A i, j \in DOMAIN products : products[i].code = products[j].code => i = j)
    /\ [][\A s \in Sessions :
            (pc[s] = "pr_insert" /\ pc'[s] = "idle") =>
              /\ \A i \in DOMAIN products :
                   i \in DOMAIN products' /\ products'[i] = products[i]
              /\ \A i \in DOMAIN products' \ DOMAIN products :
                   \A j \in DOMAIN products : products[j].code # products'[i].code
              /\ msg'[s].kind = "success" <=> DOMAIN products' # DOMAIN products
              /\ msg'[s].kind = "unique_failed" =>
                   /\ \E j \in DOMAIN products : products[j].code = msg'[s].code
                   /\ products' = products /\ seqProducts' = seqProducts]_vars

\* A creation under a taken code has been refused.
C8_Witness ==
    \E s \in Sessions :
        /\ pc[s] = "idle" /\ msg[s].kind = "unique_failed"
        /\ \E j \in DOMAIN products : products[j].code = msg[s].code

\* C9: delete_supplier is refused with the referential message, the supplier
\* left in place, when a product references the supplier; when none does, it
\* goes on to delete the supplier and reports success.
C9_DeleteSupplier ==
    [][\A s \in Sessions :
         /\ (pc[s] = "sup_count" /\ pc'[s] # "sup_count") =>
              IF Referenced(loc[s].supplier_id)
              THEN /\ msg'[s].kind = "referential_conflict" /\ pc'[s] = "idle"
                   /\ suppliers' = suppliers
              ELSE pc'[s] = "sup_delete" /\ suppliers' = suppliers
         /\ (pc[s] = "sup_delete" /\ pc'[s] # "sup_delete") =>
              /\ loc[s].supplier_id \notin DOMAIN suppliers'
              /\ \A i \in DOMAIN suppliers \ {loc[s].supplier_id} :
                   i \in DOMAIN suppliers' /\ suppliers'[i] = suppliers[i]
              /\ msg'[s].kind = "success" /\ pc'[s] = "idle"]_vars

\* The deletion of a supplier that a product references has been refused.
C9_Witness ==
    \E s \in Sessions :
        /\ pc[s] = "idle" /\ msg[s].kind = "referential_conflict"
        /\ \E i \in DOMAIN products : products[i].supplier_id \in DOMAIN suppliers

\* C10: every product whose supplier reference is set references a supplier
\* that exists.
C10_SupplierExists ==
    \A i \in DOMAIN products :
        products[i].supplier_id # NoSupplier => products[i].supplier_id \in DOMAIN suppliers
\* C11: no two suppliers hold the same tax identifier, and a creation or an
\* update under an identifier that another supplier holds fails and leaves the
\* supplier table as it was.
C11_UniqueNit ==
    /\ [](\A i, j \in DOMAIN suppliers : suppliers[i].nit = suppliers[j].nit => i = j)
    /\ [][/\ \A i \in DOMAIN suppliers' :
               (i \notin DOMAIN suppliers \/ suppliers'[i].nit # suppliers[i].nit) =>
                   \A j \in DOMAIN suppliers \ {i} : suppliers[j].nit # suppliers'[i].nit
          /\ \A s \in Sessions :
               /\ (msg'[s] # msg[s] /\ msg'[s].kind = "nit_taken") =>
                    /\ \E j \in DOMAIN suppliers : suppliers[j].nit = msg'[s].nit
                    /\ suppliers' = suppliers /\ seqSuppliers' = seqSuppliers
               /\ (pc[s] = "sup_update" /\ pc'[s] = "idle" /\ msg'[s].kind = "update_error") =>
                    /\ \E j \in DOMAIN suppliers \ {loc[s].supplier_id} :
                          suppliers[j].nit = msg'[s].nit
                    /\ suppliers' = suppliers]_vars

\* An update of one supplier to the identifier of another has been refused.
C11_Witness ==
    \E s \in Sessions :
        /\ pc[s] = "idle" /\ msg[s].kind = "update_error"
        /\ Cardinality(DOMAIN suppliers) = 2
        /\ \E j \in DOMAIN suppliers : suppliers[j].nit = msg[s].nit

\* C12: record_movement writes a movement row only for a product that exists
\* when the call is executed; for a product that is gone it fails and is not
\* reported as a success.
C12_MissingProductRefused ==
    [][\A s \in Sessions :
         /\ (pc[s] = "mv_submit" /\ pc'[s] = "mv_update") =>
              loc[s].product_id \in DOMAIN products
         /\ (pc[s] = "mv_update" /\ pc'[s] = "idle" /\ msg'[s].kind = "success") =>
              loc[s].product_id \in DOMAIN products]_vars
\* C13: when the movement row has been written and the product does not end
\* with the new quantity (the stock write failed or matched no row), the call
\* ends with the stock-update failure, never with success.
C13_PartialCommitSurfaced ==
    [][\A s \in Sessions :
         (pc[s] = "mv_update" /\ pc'[s] = "idle") =>
            LET l == loc[s]
                new_stock == NewStock(l.movement_type, l.current_stock, l.quantity) IN
            (\/ l.product_id \notin DOMAIN products'
             \/ products'[l.product_id].quantity # new_stock) =>
                msg'[s].kind = "stock_update_error"]_vars

\* C14: update_supplier reports success only for a supplier that exists when
\* the UPDATE runs, and then the row holds the submitted values.
C14_UpdateSupplierNotFound ==
    [][\A s \in Sessions :
         (pc[s] = "sup_update" /\ pc'[s] = "idle" /\ msg'[s].kind = "success") =>
            /\ loc[s].supplier_id \in DOMAIN suppliers
            /\ loc[s].supplier_id \in DOMAIN suppliers'
            /\ suppliers'[loc[s].supplier_id].name \in SupplierNames]_vars
\* C15: the stock status shown for a product is Crítico exactly when
\* quantity < min_stock, Bajo exactly when min_stock <= quantity and
\* 5 * quantity <= 6 * min_stock, and Óptimo in every other case.
C15_StockStatus ==
    \A s \in Sessions : msg[s].kind = "dashboard" =>
        \A i \in DOMAIN products :
            LET quantity == products[i].quantity
                min_stock == products[i].min_stock
                status == msg[s].stock_status[i] IN
            /\ status \in {"Crítico", "Bajo", "Óptimo"}
            /\ status = "Crítico" <=> quantity < min_stock
            /\ status = "Bajo" <=> (min_stock <= quantity /\ 5 * quantity <= 6 * min_stock)
            /\ status = "Óptimo" <=> 5 * quantity > 6 * min_stock

\* The dashboard shows a product standing exactly on the upper edge of Bajo.
C15_Witness ==
    \E s \in Sessions : msg[s].kind = "dashboard" /\
        \E i \in DOMAIN products :
            /\ products[i].min_stock > 0
            /\ 5 * products[i].quantity = 6 * products[i].min_stock
            /\ msg[s].stock_status[i] = "Bajo"
\* C16: every statement of the movement form, whether it succeeds or fails,
\* leaves the suppliers and the set of products as they were, and in the
\* products changes at most the quantity of the product the call is on.
C16_MovementFrame ==
    [][\A s \in Sessions :
         (/\ pc[s] \in {"idle", "mv_submit", "mv_update"}
          /\ pc'[s] \in {"mv_submit", "mv_update", "idle"}
          /\ pc'[s] # pc[s]
          /\ (pc[s] = "idle" => pc'[s] = "mv_submit")) =>
            LET P == IF pc[s] = "idle" THEN loc'[s].product_id ELSE loc[s].product_id IN
            /\ suppliers' = suppliers
            /\ seqSuppliers' = seqSuppliers /\ seqProducts' = seqProducts
            /\ DOMAIN products' = DOMAIN products
            /\ \A i \in DOMAIN products :
                 IF i = P
                 THEN [products'[i] EXCEPT !.quantity = products[i].quantity] = products[i]
                 ELSE products'[i] = products[i]]_vars

\* A movement on one of two products has been recorded and only that
\* product's quantity moved.
C16_Witness ==
    /\ AllIdle
    /\ Len(movements) = 1
    /\ \E s \in Sessions : msg[s].kind = "success"
    /\ \E i, j \in DOMAIN products :
         /\ i # j
         /\ movements[1].product_id = i /\ movements[1].type = "Entrada"
         /\ products[i].quantity = 1
         /\ products[j].quantity = 0
         /\ products[i].name # products[j].name
\* Entrada quantities minus Salida quantities of the rows of product id.
RECURSIVE LedgerSum(_, _)
LedgerSum(rows, id) ==
    IF rows = << >> THEN 0
    ELSE LET m == Head(rows)
             signed == IF m.product_id # id THEN 0
                       ELSE IF m.type = "Entrada" THEN m.quantity ELSE 0 - m.quantity
         IN signed + LedgerSum(Tail(rows), id)

\* C17: once every recorded movement has finished, each product's quantity is
\* its quantity at creation plus its Entrada quantities minus its Salida
\* quantities.
C17_LedgerConservation ==
    AllIdle => \A i \in DOMAIN products :
        products[i].quantity = MaxQty + LedgerSum(movements, i)
\* C18: when the movement form is read, the stock it will validate against
\* and add to is the stored quantity of the product whose id it will write.
C18_SameProduct ==
    [][\A s \in Sessions :
         (pc[s] = "idle" /\ pc'[s] = "mv_submit") =>
            /\ loc'[s].product_id \in DOMAIN products
            /\ loc'[s].current_stock = products[loc'[s].product_id].quantity]_vars

\* C19: a save of the product table that writes a row with the quantity it
\* loaded (an edit of other fields only), on a product whose stored quantity
\* is the loaded one plus the movements recorded on it, leaves the stored
\* quantity as it was just before the save.
C19_EditKeepsQuantity ==
    [][\A s \in Sessions :
         (/\ pc[s] = "pr_save" /\ pc'[s] = "pr_save"
          /\ loc'[s] # loc[s] /\ loc'[s].phase = "update") =>
            LET i == loc'[s].cursor IN
            (/\ i \in DOMAIN products
             /\ products[i].quantity =
                    loc[s].df_products[i].quantity + LedgerSum(movements, i)
             /\ products'[i].quantity = loc[s].df_products[i].quantity) =>
                products'[i].quantity = products[i].quantity]_vars

\* C20: creating a supplier with a name and a blank tax identifier is never
\* refused for the identifier being taken.
C20_BlankNitAccepted ==
    \A s \in Sessions : ~(msg[s].kind = "nit_taken" /\ msg[s].nit = "")
====
